---- MODULE Spec2Model ----
(***************************************************************************)
(* A model of the PDF processing system: the record store of main.py       *)
(* (DatabaseManager over the tables pdf_extractions and pending_orders),   *)
(* the Celery tasks of worker.py with their retry handling, the extractor  *)
(* of pdf_processor.py, and the request handlers of main.py that read and  *)
(* write the store.                                                        *)
(***************************************************************************)
EXTENDS Naturals, FiniteSets, Sequences, TLC

(***************************************************************************)
(* Bounds of the model.                                                    *)
(***************************************************************************)
\* Number of jobs the broker accepts in one run of the model.
MaxJobs == 2
\* Number of requests the request path serves in one run of the model.
MaxApiOps == 2
\* Number of time units one Tick of the clock lets pass.
TickUnit == 30

(***************************************************************************)
(* Program constants.                                                      *)
(***************************************************************************)
\* worker.py:30, task_max_retries=3 (also the default of Task.max_retries).
max_retries == 3
\* worker.py:84 and 131, self.retry(countdown=60, ...).
countdown == 60
\* pdf_processor.py:43, text[:200].
PreviewLen == 200

Jobs == 1..MaxJobs

\* Python's None, SQL NULL and JSON null.
Null == "None"

Min(a, b) == IF a <= b THEN a ELSE b

(***************************************************************************)
(* Documents and texts.  A PDF content is one of a few sample documents;   *)
(* PyPDF2 either decodes it to a text or raises.  A text is named by a     *)
(* string; its length and the first match of each of the four regular      *)
(* expressions of process_pdf_content are given by the tables below.       *)
(***************************************************************************)
Filenames == {"a.pdf", "b.pdf"}

Docs == {"pdf1", "pdf2", "corrupt"}

DecodeError == "PdfReadError"

\* PyPDF2.PdfReader(...) and the concatenation of page.extract_text().
PdfText(d) ==
    CASE d = "pdf1" -> "text1"
      [] d = "pdf2" -> "text2"
      [] d = "pdf3" -> "text3"
      [] OTHER -> DecodeError

\* len(text); text2 is longer than the preview.
TextLen(t) ==
    CASE t = "text1" -> 120
      [] t = "text2" -> 250
      [] t = "text3" -> 40
      [] OTHER -> 0

\* text[:200]
Slice200(t) == IF TextLen(t) <= PreviewLen THEN t ELSE "text2[:200]"

NoMatch == "NoMatch"

\* re.search(r'invoice[#\s]+([A-Z0-9-]+)', text, re.IGNORECASE), group(1)
InvoiceMatch(t) ==
    CASE t = "text1" -> "AB-123"
      [] t = "text2" -> "ZX-9"
      [] t = "text3" -> "INV-7"
      [] OTHER -> NoMatch

\* re.search(r'total[:\s]*\$?([0-9,]+\.?[0-9]*)', text, re.IGNORECASE), group(1)
\* In text3 the word "total" is followed by a lone comma.
TotalMatch(t) ==
    CASE t = "text1" -> "1,234.56"
      [] t = "text3" -> ","
      [] OTHER -> NoMatch

\* re.search of the e-mail pattern, group(1)
EmailMatch(t) ==
    CASE t = "text1" -> "jane@example.com"
      [] t = "text3" -> "bob@example.org"
      [] OTHER -> NoMatch

\* re.search(r'(\d{1,2}[/-]\d{1,2}[/-]\d{2,4})', text), group(1)
DateMatch(t) ==
    CASE t = "text1" -> "03/14/2024"
      [] t = "text2" -> "1-2-24"
      [] t = "text3" -> "4/5/2025"
      [] OTHER -> NoMatch

ValueError == "ValueError"

\* float(token.replace(',', ''))
ParseFloat(tok) ==
    CASE tok = "1,234.56" -> "1234.56"
      [] OTHER -> ValueError

\* The values datetime.now() can return.
Times == {"t1", "t2"}

\* The files the PDF folder is watched for, and the documents dropped there.
FolderFiles == {"a.pdf"}
FolderDocs == {"pdf1", "corrupt"}

(***************************************************************************)
(* PDFExtractedData (models.py).  customer_name stands for the optional    *)
(* string fields the extractor never sets, quantity for the optional       *)
(* integer field.                                                          *)
(***************************************************************************)
RecordFields ==
    {"filename", "invoice_number", "customer_name", "customer_email",
     "order_date", "total_amount", "currency", "quantity",
     "content_preview", "full_text", "date_extracted"}

\* The columns of pdf_extractions that hold record fields: no full_text.
TableFields == RecordFields \ {"full_text"}

\* PDFExtractedData(filename=..., content_preview=..., full_text=...,
\* date_extracted=...) with every other field at its default.
PDFExtractedData(filename, preview, text, now) ==
    [k \in RecordFields |->
        CASE k = "filename" -> filename
          [] k = "content_preview" -> preview
          [] k = "full_text" -> text
          [] k = "date_extracted" -> now
          [] k = "currency" -> "USD"
          [] OTHER -> Null]

NoData == [k \in RecordFields |-> Null]

\* Variant: the clock also reaches order_date.
process_pdf_content_ClockInDate(text, filename, now) ==
    [PDFExtractedData(filename, Slice200(text), text, now) EXCEPT
        !["order_date"] = now]

\* process_pdf_content(text, filename, PDFExtractedData)
process_pdf_content(text, filename, now) ==
    LET base == PDFExtractedData(filename,
                    IF text # "" THEN Slice200(text) ELSE "No content extracted",
                    text, now)
        inv == InvoiceMatch(text)
        tot == TotalMatch(text)
        em == EmailMatch(text)
        dt == DateMatch(text)
    IN [base EXCEPT
          !["invoice_number"] = IF inv # NoMatch THEN inv ELSE Null,
          !["total_amount"] =
              IF tot # NoMatch /\ ParseFloat(tot) # ValueError
              THEN ParseFloat(tot) ELSE Null,
          !["customer_email"] = IF em # NoMatch THEN em ELSE Null,
          !["order_date"] = IF dt # NoMatch THEN dt ELSE Null]

\* An extractor either returns a record or lets an exception escape.
Returned(data) == [exc |-> "", data |-> data]
Raised(e) == [exc |-> e, data |-> NoData]

\* Variant: the record is given the path, not its basename.
extract_pdf_from_file_KeepsPath(d, filename, now) ==
    IF PdfText(d) # DecodeError
    THEN Returned([process_pdf_content(PdfText(d), filename, now) EXCEPT
                      !["filename"] = "pdfs/a.pdf"])
    ELSE Raised("UnboundLocalError")

\* extract_pdf_from_file: `import os` (line 100) sits inside the try block, after
\* the decoding, and makes os a local name of the function.  When the decoder
\* raises, the handler's os.path.basename (line 107) reads that local before it
\* is bound: UnboundLocalError escapes the handler and no error instance is
\* built.
extract_pdf_from_file(d, filename, now) ==
    IF PdfText(d) # DecodeError
    THEN Returned(process_pdf_content(PdfText(d), filename, now))
    ELSE Raised("UnboundLocalError")

\* extract_pdf_from_bytes: the decoder's exception is caught and turned into an
\* error instance.
extract_pdf_from_bytes(d, filename, now) ==
    IF PdfText(d) # DecodeError
    THEN Returned(process_pdf_content(PdfText(d), filename, now))
    ELSE Returned(PDFExtractedData(filename,
                    "Error processing uploaded PDF: PdfReadError", "", now))

\* extract_pdf_fields (main.py): the same patterns; float(...) is not guarded,
\* so a total token that does not parse raises ValueError out of the function.
extract_pdf_fields(text, filename, now) ==
    IF TotalMatch(text) # NoMatch /\ ParseFloat(TotalMatch(text)) = ValueError
    THEN Raised(ValueError)
    ELSE Returned(process_pdf_content(text, filename, now))

\* extract_pdf_from_bytes of main.py: any exception of the decoding or of
\* extract_pdf_fields is turned into an error instance.
main_extract_pdf_from_bytes(d, filename, now) ==
    IF PdfText(d) = DecodeError
    THEN Returned(PDFExtractedData(filename,
                    "Error processing uploaded PDF: PdfReadError", "", now))
    ELSE IF extract_pdf_fields(PdfText(d), filename, now).exc # ""
    THEN Returned(PDFExtractedData(filename,
                    "Error processing uploaded PDF: could not convert string to float",
                    "", now))
    ELSE extract_pdf_fields(PdfText(d), filename, now)

(***************************************************************************)
(* State.                                                                  *)
(***************************************************************************)
VARIABLES
    disk,            \* the PDF folder: filename -> document, or Absent
    jobs,            \* the broker's and the workers' view of each job
    extractions,     \* table pdf_extractions: a set of rows
    nextExtId,       \* its AUTOINCREMENT counter (next id to hand out)
    pending_orders,  \* table pending_orders: a set of rows
    nextPendId,      \* its AUTOINCREMENT counter
    api,             \* the request path: the handler in progress
    apiOps           \* requests served so far

vars == <<disk, jobs, extractions, nextExtId, pending_orders, nextPendId,
          api, apiOps>>

Absent == "absent"

\* A job the broker has not been given yet.  attempts (executions started) and
\* commits (upserts committed) are history counters, read by no action.
NoJob ==
    [kind |-> "none", filename |-> "", doc |-> "", state |-> "none",
     pc |-> "idle", retries |-> 0, waited |-> 0, data |-> NoData,
     lock |-> FALSE, attempts |-> 0, commits |-> 0]

ApiIdle ==
    [op |-> "none", pc |-> "idle", lock |-> FALSE, filename |-> "", id |-> 0,
     payload |-> <<>>, data |-> NoData, resp |-> "none"]

Init ==
    /\ disk = [f \in FolderFiles |-> Absent]
    /\ jobs = [j \in Jobs |-> NoJob]
    /\ extractions = {}
    /\ nextExtId = 1
    /\ pending_orders = {}
    /\ nextPendId = 1
    /\ api = ApiIdle
    /\ apiOps = 0

(***************************************************************************)
(* The record store (DatabaseManager).                                     *)
(***************************************************************************)
\* The row insert_pdf_data writes: the 19 bound columns, no full_text.
RowOf(id, data) ==
    [k \in TableFields \cup {"id"} |-> IF k = "id" THEN id ELSE data[k]]

\* Variant: a plain INSERT, the row of the same filename is kept.
InsertOrReplace_Append(table, id, data) == table \cup {RowOf(id, data)}

\* Variant: the table is emptied before the row is inserted.
InsertOrReplace_Truncate(table, id, data) == {RowOf(id, data)}

\* Variant: INSERT OR IGNORE, the row that holds the filename already wins.
InsertOrReplace_Ignore(table, id, data) ==
    IF \E r \in table : r.filename = data["filename"] THEN table
    ELSE table \cup {RowOf(id, data)}

\* INSERT OR REPLACE INTO pdf_extractions: the row that holds the same
\* filename (UNIQUE) is deleted and the new row is inserted under a fresh id.
InsertOrReplace(table, id, data) ==
    {r \in table : r.filename # data["filename"]} \cup {RowOf(id, data)}

FilenamesOf(table) == {r.filename : r \in table}

RowsFor(table, f) == {r \in table : r.filename = f}

(***************************************************************************)
(* The folder and the submission of jobs.                                  *)
(***************************************************************************)
Submitted == {j \in Jobs : jobs[j].state # "none"}

\* Jobs are numbered in the order the broker receives them.
NextJob == Cardinality(Submitted) + 1

\* A file lands in the PDF folder (upload_pdf_to_folder, or a copy from outside).
PutFile(f, d) ==
    /\ disk[f] # d
    /\ disk' = [disk EXCEPT ![f] = d]
    /\ UNCHANGED <<jobs, extractions, nextExtId, pending_orders, nextPendId,
                   api, apiOps>>

\* A file is removed from the PDF folder.
RemoveFile(f) ==
    /\ disk[f] # Absent
    /\ disk' = [disk EXCEPT ![f] = Absent]
    /\ UNCHANGED <<jobs, extractions, nextExtId, pending_orders, nextPendId,
                   api, apiOps>>

\* process_existing_pdfs / PDFHandler: send_task('process_pdf', [file_path])
\* for a PDF of the folder.
SubmitPath(f) ==
    /\ NextJob \in Jobs
    /\ disk[f] # Absent
    /\ jobs' = [jobs EXCEPT ![NextJob] =
                  [NoJob EXCEPT !.kind = "path", !.filename = f,
                                !.state = "queued"]]
    /\ UNCHANGED <<disk, extractions, nextExtId, pending_orders, nextPendId,
                   api, apiOps>>

\* upload_pdf: send_task('process_pdf_bytes', [content, file.filename]).
upload_pdf(f, d) ==
    /\ NextJob \in Jobs
    /\ jobs' = [jobs EXCEPT ![NextJob] =
                  [NoJob EXCEPT !.kind = "bytes", !.filename = f, !.doc = d,
                                !.state = "queued"]]
    /\ UNCHANGED <<disk, extractions, nextExtId, pending_orders, nextPendId,
                   api, apiOps>>

(***************************************************************************)
(* The tasks of worker.py.  One attempt of a job runs: the extraction      *)
(* (pc "start"), then store_data: init_db and insert_pdf_data, each inside *)
(* the lock of the DatabaseManager the attempt has just constructed.       *)
(***************************************************************************)
\* Variant: the comparison off by one (<= for <).
OnException_OffByOne(job) ==
    IF job.retries <= max_retries
    THEN [job EXCEPT !.state = "retrying", !.retries = @ + 1, !.waited = 0,
                     !.pc = "idle", !.data = NoData]
    ELSE [job EXCEPT !.state = "failed", !.pc = "idle", !.data = NoData]

\* The except block of both tasks: retry while request.retries is below
\* max_retries, else re-raise (the job ends FAILURE).
OnException(job) ==
    IF job.retries < max_retries
    THEN [job EXCEPT !.state = "retrying", !.retries = @ + 1, !.waited = 0,
                     !.pc = "idle", !.data = NoData]
    ELSE [job EXCEPT !.state = "failed", !.pc = "idle", !.data = NoData]

\* Variant: the broker delivers a failed task again.
Due_Redeliver(job) ==
    \/ job.state \in {"queued", "failed"}
    \/ job.state = "retrying" /\ job.waited >= countdown

\* Variant: a task sent for retry is never delivered again.
Due_RetryLost(job) == job.state = "queued"

\* A retried task is delivered once its countdown has passed.
Due(job) ==
    \/ job.state = "queued"
    \/ job.state = "retrying" /\ job.waited >= countdown

\* A worker picks the job up.
Pickup(j) ==
    /\ Due(jobs[j])
    /\ jobs' = [jobs EXCEPT ![j].state = "processing", ![j].pc = "start",
                           ![j].attempts = @ + 1]
    /\ UNCHANGED <<disk, extractions, nextExtId, pending_orders, nextPendId,
                   api, apiOps>>

\* process_pdf_task, lines 44-52: the existence check and the extraction.
ExtractPath(j, now) ==
    /\ jobs[j].state = "processing" /\ jobs[j].pc = "start"
    /\ jobs[j].kind = "path"
    /\ LET f == jobs[j].filename
           r == extract_pdf_from_file(disk[f], f, now)
       IN jobs' = [jobs EXCEPT ![j] =
             IF disk[f] = Absent THEN OnException(@)
             ELSE IF r.exc # "" THEN OnException(@)
             ELSE [@ EXCEPT !.pc = "init_db", !.data = r.data]]
    /\ UNCHANGED <<disk, extractions, nextExtId, pending_orders, nextPendId,
                   api, apiOps>>

\* process_pdf_bytes_task, lines 96-99: the extraction.
ExtractBytes(j, now) ==
    /\ jobs[j].state = "processing" /\ jobs[j].pc = "start"
    /\ jobs[j].kind = "bytes"
    /\ LET r == extract_pdf_from_bytes(jobs[j].doc, jobs[j].filename, now)
       IN jobs' = [jobs EXCEPT ![j] =
             IF r.exc # "" THEN OnException(@)
             ELSE [@ EXCEPT !.pc = "init_db", !.data = r.data]]
    /\ UNCHANGED <<disk, extractions, nextExtId, pending_orders, nextPendId,
                   api, apiOps>>

\* async with self._lock of the job's own DatabaseManager (store_data builds
\* a new one, with a new asyncio.Lock, in every attempt), then connect.
JobDbEnter(j) ==
    /\ jobs[j].state = "processing"
    /\ jobs[j].pc \in {"init_db", "insert_pdf_data"}
    /\ ~jobs[j].lock
    /\ jobs' = [jobs EXCEPT ![j].lock = TRUE]
    /\ UNCHANGED <<disk, extractions, nextExtId, pending_orders, nextPendId,
                   api, apiOps>>

\* init_db: CREATE TABLE IF NOT EXISTS leaves existing tables as they are.
JobInitDb(j) ==
    /\ jobs[j].state = "processing" /\ jobs[j].pc = "init_db"
    /\ jobs[j].lock
    /\ jobs' = [jobs EXCEPT ![j].lock = FALSE, ![j].pc = "insert_pdf_data"]
    /\ UNCHANGED <<disk, extractions, nextExtId, pending_orders, nextPendId,
                   api, apiOps>>

\* insert_pdf_data commits and returns True; the task returns its result.
JobInsertOk(j) ==
    /\ jobs[j].state = "processing" /\ jobs[j].pc = "insert_pdf_data"
    /\ jobs[j].lock
    /\ extractions' = InsertOrReplace(extractions, nextExtId, jobs[j].data)
    /\ nextExtId' = nextExtId + 1
    /\ jobs' = [jobs EXCEPT ![j] =
                  [@ EXCEPT !.lock = FALSE, !.pc = "idle",
                            !.state = "succeeded", !.commits = @ + 1]]
    /\ UNCHANGED <<disk, pending_orders, nextPendId, api, apiOps>>

\* Variant: the row is committed and the call still reports failure.
JobInsertFail_Committed(j) ==
    /\ jobs[j].state = "processing" /\ jobs[j].pc = "insert_pdf_data"
    /\ jobs[j].lock
    /\ extractions' = InsertOrReplace(extractions, nextExtId, jobs[j].data)
    /\ nextExtId' = nextExtId + 1
    /\ jobs' = [jobs EXCEPT ![j] = OnException([@ EXCEPT !.lock = FALSE])]
    /\ UNCHANGED <<disk, pending_orders, nextPendId, api, apiOps>>

\* insert_pdf_data catches a database error and returns False; the task raises
\* Exception('Failed to store PDF data in database').
JobInsertFail(j) ==
    /\ jobs[j].state = "processing" /\ jobs[j].pc = "insert_pdf_data"
    /\ jobs[j].lock
    /\ jobs' = [jobs EXCEPT ![j] =
                  OnException([@ EXCEPT !.lock = FALSE])]
    /\ UNCHANGED <<disk, extractions, nextExtId, pending_orders, nextPendId,
                   api, apiOps>>

\* Time passes: every retrying job's countdown advances.
Tick ==
    /\ \E j \in Jobs : jobs[j].state = "retrying" /\ jobs[j].waited < countdown
    /\ jobs' = [j \in Jobs |->
                  IF jobs[j].state = "retrying"
                  THEN [jobs[j] EXCEPT !.waited = Min(@ + TickUnit, countdown)]
                  ELSE jobs[j]]
    /\ UNCHANGED <<disk, extractions, nextExtId, pending_orders, nextPendId,
                   api, apiOps>>

(***************************************************************************)
(* Update payloads (update_data: dict) and pydantic's validation.  JSON     *)
(* numbers are written as their numerals; every other non-null value is a  *)
(* JSON string.                                                            *)
(***************************************************************************)
JsonNumbers == {"7", "1234.56"}

IsNumber(v) == v \in JsonNumbers

IsString(v) == v # Null /\ ~IsNumber(v)

\* The field types of PDFExtractedData (models.py).
Required == {"filename", "content_preview", "full_text", "date_extracted"}

FloatFields == {"total_amount"}

IntFields == {"quantity"}

\* Whether PDFExtractedData accepts value v for field k: an Optional field
\* accepts None; a str field only a string (no coercion from numbers); a float
\* or int field a number; date_extracted one of the timestamps.
ValidFor(k, v) ==
    IF v = Null THEN k \notin Required
    ELSE IF k \in FloatFields THEN IsNumber(v)
    ELSE IF k \in IntFields THEN v = "7"
    ELSE IF k = "date_extracted" THEN v \in Times
    ELSE IsString(v)

\* PDFExtractedData(**d) raises ValidationError unless every field validates.
ValidRecord(d) == \A k \in RecordFields : ValidFor(k, d[k])

\* Variant: a null in the payload overwrites too.
Merge_NullOverwrites(current, payload) ==
    [k \in DOMAIN current |->
        IF k \in DOMAIN payload THEN payload[k] ELSE current[k]]

\* for key, value in update_data.items():
\*     if key in current and value is not None: current[key] = value
Merge(current, payload) ==
    [k \in DOMAIN current |->
        IF k \in DOMAIN payload /\ payload[k] # Null THEN payload[k]
        ELSE current[k]]

(***************************************************************************)
(* Reads of the store.                                                     *)
(***************************************************************************)
PENDING == "pending"

RECURSIVE NewestFirst(_)
\* ORDER BY created_at DESC; rows are created in the order of their ids.
NewestFirst(rows) ==
    IF rows = {} THEN <<>>
    ELSE LET top == CHOOSE r \in rows : \A q \in rows : q.id <= r.id
         IN <<top>> \o NewestFirst(rows \ {top})

\* SELECT * FROM pdf_extractions ORDER BY created_at DESC
get_all_records(table) == NewestFirst(table)

\* SELECT * FROM pending_orders WHERE status = 'pending' ORDER BY created_at DESC
get_pending_orders(table) == NewestFirst({r \in table : r.status = PENDING})

\* Variant: the count is taken over the distinct filenames.
get_pending_count_Distinct(table) ==
    Cardinality({r.filename : r \in {q \in table : q.status = PENDING}})

\* SELECT COUNT(*) FROM pending_orders WHERE status = 'pending'
get_pending_count(table) == Cardinality({r \in table : r.status = PENDING})

\* next((record for record in records if record['filename'] == filename), None)
FirstWith(records, f) ==
    IF \E i \in 1..Len(records) : records[i].filename = f
    THEN {records[CHOOSE i \in 1..Len(records) :
                    /\ records[i].filename = f
                    /\ \A k \in 1..(i - 1) : records[k].filename # f]}
    ELSE {}

\* Variant: the loop takes the first order whatever its id.
FirstWithId_Any(orders, id) == IF Len(orders) > 0 THEN {orders[1]} ELSE {}

\* for order in orders: if order['id'] == order_id: current_order = order
FirstWithId(orders, id) ==
    IF \E i \in 1..Len(orders) : orders[i].id = id
    THEN {orders[CHOOSE i \in 1..Len(orders) :
                   /\ orders[i].id = id
                   /\ \A k \in 1..(i - 1) : orders[k].id # id]}
    ELSE {}

\* The PDFExtractedData that send_to_pending and update_pdf_data build from a
\* row or row dict: full_text is taken from content_preview.
FromRow(row) ==
    [k \in RecordFields |->
        IF k = "full_text" THEN row["content_preview"] ELSE row[k]]

(***************************************************************************)
(* The request handlers of main.py that write the store.  A handler is     *)
(* called (it enters the database section of its first store call), reads, *)
(* and then writes; other processes run between its read and its write.    *)
(***************************************************************************)
ApiCall(op, f, id, payload) ==
    /\ api.pc = "idle"
    /\ apiOps < MaxApiOps
    /\ api' = [ApiIdle EXCEPT !.op = op, !.pc = "read", !.lock = TRUE,
                              !.filename = f, !.id = id, !.payload = payload]
    /\ apiOps' = apiOps + 1
    /\ UNCHANGED <<disk, jobs, extractions, nextExtId, pending_orders,
                   nextPendId>>

\* The handler returns without a store write.
ApiReturn(resp) == [ApiIdle EXCEPT !.op = api.op, !.resp = resp]

ApiFrame == UNCHANGED <<disk, jobs, apiOps>>

\* send_to_pending, lines 304-332.
send_to_pending_read ==
    /\ api.op = "send_to_pending" /\ api.pc = "read"
    /\ LET found == FirstWith(get_all_records(extractions), api.filename)
       IN IF found = {}
          THEN api' = ApiReturn("not_found")
          ELSE \E row \in found :
                 api' = [api EXCEPT !.pc = "write", !.data = FromRow(row)]
    /\ UNCHANGED <<extractions, nextExtId, pending_orders, nextPendId>>
    /\ ApiFrame

\* insert_pending_order commits: INSERT INTO pending_orders
\* (filename, pdf_data, status) VALUES (?, pdf_data.json(), 'pending').
send_to_pending_ok ==
    /\ api.op = "send_to_pending" /\ api.pc = "write"
    /\ pending_orders' = pending_orders \cup
          {[id |-> nextPendId, filename |-> api.data["filename"],
            pdf_data |-> api.data, status |-> PENDING]}
    /\ nextPendId' = nextPendId + 1
    /\ api' = ApiReturn("ok")
    /\ UNCHANGED <<extractions, nextExtId>>
    /\ ApiFrame

\* A store call of the handler fails: the DatabaseManager method returns False
\* and the handler reports the error.
ApiWriteFail ==
    /\ api.pc = "write"
    /\ api' = ApiReturn("error")
    /\ UNCHANGED <<extractions, nextExtId, pending_orders, nextPendId>>
    /\ ApiFrame

\* update_pending_order (the handler), lines 354-374.
update_pending_order_read ==
    /\ api.op = "update_pending_order" /\ api.pc = "read"
    /\ LET found == FirstWithId(get_pending_orders(pending_orders), api.id)
       IN IF found = {}
          THEN api' = ApiReturn("not_found")
          ELSE \E order \in found :
                 LET merged == Merge(order.pdf_data, api.payload)
                 IN IF ValidRecord(merged)
                    THEN api' = [api EXCEPT !.pc = "write", !.data = merged]
                    ELSE api' = ApiReturn("invalid")
    /\ UNCHANGED <<extractions, nextExtId, pending_orders, nextPendId>>
    /\ ApiFrame

\* Variant: the UPDATE also sets status = 'processed'.
update_pending_order_ok_SetsStatus ==
    /\ api.op = "update_pending_order" /\ api.pc = "write"
    /\ pending_orders' =
          {IF r.id = api.id
           THEN [r EXCEPT !.pdf_data = api.data, !.status = "processed"] ELSE r :
             r \in pending_orders}
    /\ api' = ApiReturn("ok")
    /\ UNCHANGED <<extractions, nextExtId, nextPendId>>
    /\ ApiFrame

\* DatabaseManager.update_pending_order commits:
\* UPDATE pending_orders SET pdf_data = ? WHERE id = ?
update_pending_order_ok ==
    /\ api.op = "update_pending_order" /\ api.pc = "write"
    /\ pending_orders' =
          {IF r.id = api.id THEN [r EXCEPT !.pdf_data = api.data] ELSE r :
             r \in pending_orders}
    /\ api' = ApiReturn("ok")
    /\ UNCHANGED <<extractions, nextExtId, nextPendId>>
    /\ ApiFrame

\* update_pdf_data, lines 531-567.
update_pdf_data_read ==
    /\ api.op = "update_pdf_data" /\ api.pc = "read"
    /\ LET found == FirstWith(get_all_records(extractions), api.filename)
       IN IF found = {}
          THEN api' = ApiReturn("not_found")
          ELSE \E row \in found :
                 LET updated == FromRow(Merge(row, api.payload))
                 IN IF ValidRecord(updated)
                    THEN api' = [api EXCEPT !.pc = "write", !.data = updated]
                    ELSE api' = ApiReturn("invalid")
    /\ UNCHANGED <<extractions, nextExtId, pending_orders, nextPendId>>
    /\ ApiFrame

\* insert_pdf_data commits the updated record.
update_pdf_data_ok ==
    /\ api.op = "update_pdf_data" /\ api.pc = "write"
    /\ extractions' = InsertOrReplace(extractions, nextExtId, api.data)
    /\ nextExtId' = nextExtId + 1
    /\ api' = ApiReturn("ok")
    /\ UNCHANGED <<pending_orders, nextPendId>>
    /\ ApiFrame

(***************************************************************************)
(* get_processing_status.  Its tests on the pending queue and on the       *)
(* folder are Python's `in` on strings: substring tests.                   *)
(***************************************************************************)
\* The names the status is asked for: the filenames and a part of a filename.
StatusQueries == Filenames \cup {".pdf"}

\* needle in hay, for the strings of the model.
Contains(hay, needle) ==
    \/ hay = needle
    \/ needle = ".pdf" /\ hay \in Filenames

\* filename in order['pdf_data']: pdf_data is the JSON text of the snapshot,
\* which contains every string value of the snapshot.
InJson(pdf_data, needle) ==
    \E k \in RecordFields : Contains(pdf_data[k], needle)

\* os.path.exists(file_path) or [f for f in os.listdir(PDF_FOLDER) if filename in f]
OnDisk(needle) ==
    \E f \in DOMAIN disk : disk[f] # Absent /\ Contains(f, needle)

\* Lines 482-491: the look-up in the extraction store.
get_processing_status_store ==
    /\ api.op = "get_processing_status" /\ api.pc = "read"
    /\ IF FirstWith(get_all_records(extractions), api.filename) # {}
       THEN api' = ApiReturn("completed")
       ELSE api' = [api EXCEPT !.pc = "read_pending"]
    /\ UNCHANGED <<extractions, nextExtId, pending_orders, nextPendId>>
    /\ ApiFrame

\* Lines 493-503: the look-up in the pending queue.
get_processing_status_pending ==
    /\ api.op = "get_processing_status" /\ api.pc = "read_pending"
    /\ LET pending == get_pending_orders(pending_orders)
       IN IF \E i \in 1..Len(pending) : InJson(pending[i].pdf_data, api.filename)
          THEN api' = ApiReturn("pending")
          ELSE api' = [api EXCEPT !.pc = "read_disk", !.lock = FALSE]
    /\ UNCHANGED <<extractions, nextExtId, pending_orders, nextPendId>>
    /\ ApiFrame

\* Lines 505-523: the look-up in the folder.
get_processing_status_disk ==
    /\ api.op = "get_processing_status" /\ api.pc = "read_disk"
    /\ api' = ApiReturn(IF OnDisk(api.filename) THEN "processing" ELSE "not_found")
    /\ UNCHANGED <<extractions, nextExtId, pending_orders, nextPendId>>
    /\ ApiFrame

ApiStep ==
    \/ send_to_pending_read
    \/ send_to_pending_ok
    \/ update_pending_order_read
    \/ update_pending_order_ok
    \/ update_pdf_data_read
    \/ update_pdf_data_ok
    \/ ApiWriteFail

JobStep(j) ==
    \/ Pickup(j)
    \/ \E now \in {"t1"} : ExtractPath(j, now)
    \/ \E now \in {"t1"} : ExtractBytes(j, now)
    \/ JobDbEnter(j)
    \/ JobInitDb(j)
    \/ JobInsertOk(j)
    \/ JobInsertFail(j)

Next ==
    \/ \E f \in FolderFiles, d \in FolderDocs : PutFile(f, d)
    \/ \E f \in FolderFiles : RemoveFile(f)
    \/ \E f \in FolderFiles : SubmitPath(f)
    \/ \E f \in Filenames, d \in Docs : upload_pdf(f, d)
    \/ \E j \in Jobs : JobStep(j)
    \/ Tick

Spec == Init /\ [][Next]_vars

\* Workers keep executing the tasks they hold and time keeps passing.
LiveSpec == Spec /\ WF_vars(Tick) /\ \A j \in Jobs : WF_vars(JobStep(j))

(***************************************************************************)
(* The request path alone, over a store that earlier uploads have filled.  *)
(***************************************************************************)
\* The keys and values of the update payloads the model sends.
PayloadKeys == {"invoice_number", "total_amount", "filename", "unknown_key"}

PayloadVals == {Null, "x", "7"}

Payloads ==
    UNION {[K -> PayloadVals] : K \in {S \in SUBSET PayloadKeys : Cardinality(S) <= 2}}

PendIds == 1..MaxApiOps

\* The stores that completed uploads leave behind: at most one row for each
\* filename, written in some order.
UploadedStores ==
    {{}} \cup
    {{RowOf(1, extract_pdf_from_bytes(d, f, "t1").data)} :
        f \in Filenames, d \in Docs} \cup
    {{RowOf(1, extract_pdf_from_bytes(d1, fg[1], "t1").data),
      RowOf(2, extract_pdf_from_bytes(d2, fg[2], "t1").data)} :
        fg \in {p \in Filenames \X Filenames : p[1] # p[2]},
        d1 \in Docs, d2 \in Docs}

ApiInit ==
    /\ disk = [f \in FolderFiles |-> Absent]
    /\ jobs = [j \in Jobs |-> NoJob]
    /\ extractions \in UploadedStores
    /\ nextExtId = Cardinality(extractions) + 1
    /\ pending_orders = {}
    /\ nextPendId = 1
    /\ api = ApiIdle
    /\ apiOps = 0

ApiNext ==
    \/ \E f \in Filenames : ApiCall("send_to_pending", f, 0, <<>>)
    \/ \E id \in PendIds, p \in Payloads : ApiCall("update_pending_order", "", id, p)
    \/ \E f \in Filenames, p \in Payloads : ApiCall("update_pdf_data", f, 0, p)
    \/ ApiStep

ApiSpec == ApiInit /\ [][ApiNext]_vars

(***************************************************************************)
(* The extractors called directly, next to uploads that run them inside    *)
(* the byte task.  The frame of a call holds the function, its arguments   *)
(* and what it returned or raised.                                         *)
(***************************************************************************)
\* Documents for the extractors: those of the uploads and one whose total
\* token does not parse.
ExtractDocs == Docs \cup {"pdf3"}

ExtractTexts == {PdfText(d) : d \in ExtractDocs} \ {DecodeError}

CallFrame(fn, text, filename, r) ==
    [ApiIdle EXCEPT !.op = fn, !.filename = filename,
                    !.payload = [k \in {"text"} |-> text],
                    !.data = r.data,
                    !.resp = IF r.exc = "" THEN "returned" ELSE r.exc]

Call(fn, text, filename, r) ==
    /\ api.pc = "idle"
    /\ apiOps < MaxApiOps
    /\ api' = CallFrame(fn, text, filename, r)
    /\ apiOps' = apiOps + 1
    /\ UNCHANGED <<disk, jobs, extractions, nextExtId, pending_orders,
                   nextPendId>>

call_process_pdf_content(text, filename, now) ==
    Call("process_pdf_content", text, filename,
         Returned(process_pdf_content(text, filename, now)))

call_extract_pdf_fields(text, filename, now) ==
    Call("extract_pdf_fields", text, filename,
         extract_pdf_fields(text, filename, now))

call_main_extract_pdf_from_bytes(d, filename, now) ==
    Call("main.extract_pdf_from_bytes", PdfText(d), filename,
         main_extract_pdf_from_bytes(d, filename, now))

ExtractNext ==
    \/ \E f \in Filenames, d \in ExtractDocs : upload_pdf(f, d)
    \/ \E j \in Jobs : Pickup(j)
    \/ \E j \in Jobs, now \in Times : ExtractBytes(j, now)
    \/ \E t \in ExtractTexts, f \in Filenames, now \in Times :
          call_process_pdf_content(t, f, now)
    \/ \E t \in ExtractTexts, f \in Filenames, now \in Times :
          call_extract_pdf_fields(t, f, now)
    \/ \E d \in ExtractDocs, f \in Filenames, now \in Times :
          call_main_extract_pdf_from_bytes(d, f, now)

ExtractSpec == Init /\ [][ExtractNext]_vars

(***************************************************************************)
(* Status requests, with records sent to review and files coming and going *)
(* in the folder.                                                          *)
(***************************************************************************)
StatusNext ==
    \/ \E f \in FolderFiles, d \in FolderDocs : PutFile(f, d)
    \/ \E f \in FolderFiles : RemoveFile(f)
    \/ \E f \in Filenames : ApiCall("send_to_pending", f, 0, <<>>)
    \/ send_to_pending_read
    \/ send_to_pending_ok
    \/ ApiWriteFail
    \/ \E q \in StatusQueries : ApiCall("get_processing_status", q, 0, <<>>)
    \/ get_processing_status_store
    \/ get_processing_status_pending
    \/ get_processing_status_disk

StatusSpec == ApiInit /\ [][StatusNext]_vars

(***************************************************************************)
(* Uploads of one filename together with updates of its record by the      *)
(* request path.                                                           *)
(***************************************************************************)
MixFiles == {"a.pdf"}

MixDocs == {"pdf1", "pdf2"}

MixPayloads ==
    {[k \in {"invoice_number"} |-> "x"], [k \in {"filename"} |-> "b.pdf"]}

MixNext ==
    \/ \E f \in MixFiles, d \in MixDocs : upload_pdf(f, d)
    \/ \E f \in MixFiles : PutFile(f, "pdf1")
    \/ \E f \in MixFiles : SubmitPath(f)
    \/ \E j \in Jobs : JobStep(j)
    \/ Tick
    \/ \E f \in Filenames, p \in MixPayloads : ApiCall("update_pdf_data", f, 0, p)
    \/ update_pdf_data_read
    \/ update_pdf_data_ok
    \/ ApiWriteFail

MixSpec == Init /\ [][MixNext]_vars

(***************************************************************************)
(* Properties of the tasks.                                                *)
(***************************************************************************)
Terminal(job) == job.state \in {"succeeded", "failed"}

Tables == <<extractions, nextExtId, pending_orders, nextPendId>>

\* An attempt of job j has ended with an exception in this step.
Excepted(j) ==
    /\ jobs[j].state = "processing"
    /\ jobs'[j].state \in {"retrying", "failed"}

\* C1: the extraction store never holds two records with the same filename,
\* whatever jobs and record updates have completed and in whatever order, and
\* the filename of every succeeded job has exactly one record.
C1_UpsertInvariant ==
    /\ \A r, q \in extractions : r.filename = q.filename => r = q
    /\ \A j \in Jobs :
          jobs[j].state = "succeeded" =>
             Cardinality(RowsFor(extractions, jobs[j].filename)) = 1

C1_Witness ==
    /\ \E j, k \in Jobs :
          /\ jobs[j].state = "succeeded" /\ jobs[k].state = "succeeded"
          /\ jobs[j].kind = "bytes" /\ jobs[k].kind = "bytes"
          /\ jobs[j].filename = jobs[k].filename
          /\ jobs[j].doc # jobs[k].doc
          /\ Cardinality(RowsFor(extractions, jobs[j].filename)) = 1
    /\ api.op = "update_pdf_data" /\ api.resp = "ok"

\* C2: a job whose attempts fail with an exception is retried while its retry
\* count is below 3, each retry counted once and delivered only after 60 time
\* units; with the count at 3 the next exception ends the job failed; so a job
\* makes at most 4 attempts and its retry count never exceeds 3.
C2_RetryCounts ==
    \A j \in Jobs :
        /\ jobs[j].retries <= 3
        /\ jobs[j].attempts <= 4
        /\ jobs[j].state = "failed" => jobs[j].retries = 3 /\ jobs[j].attempts = 4
        /\ jobs[j].state = "retrying" => jobs[j].attempts = jobs[j].retries

C2_RetrySteps ==
    \A j \in Jobs :
        /\ Excepted(j) =>
              IF jobs[j].retries < 3
              THEN /\ jobs'[j].state = "retrying"
                   /\ jobs'[j].retries = jobs[j].retries + 1
                   /\ jobs'[j].waited = 0
              ELSE /\ jobs'[j].state = "failed"
                   /\ jobs'[j].retries = jobs[j].retries
        /\ (jobs[j].state = "retrying" /\ jobs'[j].state # "retrying") =>
              /\ jobs'[j].state = "processing"
              /\ jobs[j].waited >= 60
              /\ jobs'[j].retries = jobs[j].retries

C2_BoundedRetry == []C2_RetryCounts /\ [][C2_RetrySteps]_vars

C2_Witness ==
    \E j \in Jobs :
        jobs[j].state = "failed" /\ jobs[j].retries = 3 /\ jobs[j].attempts = 4

\* The document job j is about to decode cannot be decoded.
Undecodable(j) ==
    \/ jobs[j].kind = "bytes" /\ PdfText(jobs[j].doc) = DecodeError
    \/ /\ jobs[j].kind = "path"
       /\ disk[jobs[j].filename] # Absent
       /\ PdfText(disk[jobs[j].filename]) = DecodeError

ErrorPreviews ==
    {"Error processing PDF: PdfReadError",
     "Error processing uploaded PDF: PdfReadError"}

Degraded(data, f) ==
    /\ data["filename"] = f
    /\ data["content_preview"] \in ErrorPreviews
    /\ data["full_text"] = ""
    /\ data["invoice_number"] = Null
    /\ data["total_amount"] = Null
    /\ data["customer_email"] = Null
    /\ data["order_date"] = Null

\* C3: a decode error never enters the retry path: the extraction of a
\* document that cannot be decoded hands the task a degraded record (error
\* message in content_preview, empty full_text, null pattern fields) without
\* an exception, the attempt upserts that record, and when the upsert succeeds
\* on the first attempt the job ends succeeded with retry count 0.
C3_DecodeStep ==
    \A j \in Jobs :
        /\ (jobs[j].state = "processing" /\ jobs[j].pc = "start"
              /\ Undecodable(j) /\ jobs'[j] # jobs[j]) =>
              /\ jobs'[j].state = "processing"
              /\ jobs'[j].retries = jobs[j].retries
              /\ Degraded(jobs'[j].data, jobs[j].filename)
        /\ (jobs[j].state = "processing" /\ jobs'[j].state = "succeeded"
              /\ Degraded(jobs[j].data, jobs[j].filename)) =>
              /\ jobs'[j].retries = jobs[j].retries
              /\ RowOf(nextExtId, jobs[j].data) \in extractions'

C3_DecodeNeverRetries == [][C3_DecodeStep]_vars

\* C4: a job moves only along queued -> processing -> {succeeded, retrying,
\* failed} and retrying -> processing; a succeeded or failed job never changes
\* again (no transition, no further commit), and nothing takes a job that was
\* picked up back to queued.
AllowedMove(s, t) ==
    \/ s = t
    \/ <<s, t>> \in {<<"none", "queued">>, <<"queued", "processing">>,
                     <<"processing", "succeeded">>, <<"processing", "retrying">>,
                     <<"processing", "failed">>, <<"retrying", "processing">>}

C4_Moves ==
    \A j \in Jobs :
        /\ AllowedMove(jobs[j].state, jobs'[j].state)
        /\ Terminal(jobs[j]) => jobs'[j] = jobs[j]

C4_StateMachine == [][C4_Moves]_vars

C4_Witness ==
    \E j, k \in Jobs :
        /\ jobs[j].state = "succeeded" /\ jobs[j].retries > 0
        /\ jobs[k].state = "failed"

\* C5: every job a worker has picked up eventually ends succeeded or failed,
\* whatever the store does and whatever other jobs run.
C5_Terminates ==
    \A j \in Jobs :
        (jobs[j].state \in {"processing", "retrying"}) ~> Terminal(jobs[j])

C5_Witness ==
    \E j, k \in Jobs :
        /\ j # k
        /\ jobs[j].state = "succeeded" /\ jobs[j].retries = 3
        /\ jobs[k].state = "processing" /\ jobs[k].lock

\* C6: a job that ends failed has committed nothing, and the step that ends
\* an attempt with an exception leaves both tables as they were.
C6_FailedCommitsNothing ==
    \A j \in Jobs : jobs[j].state = "failed" => jobs[j].commits = 0

C6_ExceptionStep ==
    \A j \in Jobs : Excepted(j) => UNCHANGED Tables

C6_FailedLeavesStore == []C6_FailedCommitsNothing /\ [][C6_ExceptionStep]_vars

C6_Witness ==
    \E j, k \in Jobs :
        /\ jobs[j].state = "failed" /\ jobs[j].commits = 0
        /\ jobs[k].state = "succeeded"
        /\ jobs[k].filename = jobs[j].filename

\* C10: at no time are two store operations inside their database section
\* (the lock of a DatabaseManager held, a connection open) at once.
InSection == {j \in Jobs : jobs[j].lock}

C10_SingleGate == Cardinality(InSection) + (IF api.lock THEN 1 ELSE 0) <= 1

(***************************************************************************)
(* Properties of the request handlers.                                     *)
(***************************************************************************)
MergedField(old, payload, k) ==
    IF k \in DOMAIN payload /\ payload[k] # Null THEN payload[k] ELSE old[k]

IsMergeOf(new, old, payload) ==
    \A k \in RecordFields : new[k] = MergedField(old, payload, k)

\* Every non-null payload value for a snapshot field has the field's type.
PayloadFits(payload) ==
    \A k \in DOMAIN payload \cap RecordFields :
        payload[k] # Null => ValidFor(k, payload[k])

\* The update_pending_order handler returns in this step, and not because the
\* store call failed.
UpdatePendingReturns ==
    /\ api.op = "update_pending_order"
    /\ api.pc # "idle" /\ api'.pc = "idle"
    /\ api'.resp # "error"

\* C7 as stated: update_pending on an existing entry leaves a snapshot in which
\* every field with a non-null payload value holds the payload value and every
\* other field holds its stored value.
C7_MergeAlways ==
    [][UpdatePendingReturns =>
         \A r \in pending_orders : r.id = api.id =>
            \E q \in pending_orders' :
               /\ q.id = r.id
               /\ IsMergeOf(q.pdf_data, r.pdf_data, api.payload)]_vars

\* C7 as amended: the same when every non-null payload value has the type of
\* its field; otherwise the update is refused as invalid and the snapshot
\* keeps every stored value.
C7_MergeIfValid ==
    [][UpdatePendingReturns =>
         \A r \in pending_orders : r.id = api.id =>
            \E q \in pending_orders' :
               /\ q.id = r.id
               /\ IF PayloadFits(api.payload)
                  THEN /\ api'.resp = "ok"
                       /\ IsMergeOf(q.pdf_data, r.pdf_data, api.payload)
                  ELSE /\ api'.resp = "invalid"
                       /\ q.pdf_data = r.pdf_data]_vars

C7_Witness ==
    /\ api.op = "update_pending_order" /\ api.resp = "ok"
    /\ \E r \in pending_orders :
          /\ r.pdf_data["invoice_number"] = "x"
          /\ r.pdf_data["total_amount"] = "1234.56"
          /\ r.pdf_data["customer_email"] = "jane@example.com"

\* The record or entry the handler in progress is about to look up is not there.
TargetMissing ==
    /\ api.pc = "read"
    /\ IF api.op = "update_pending_order"
       THEN ~\E r \in pending_orders : r.id = api.id /\ r.status = PENDING
       ELSE api.filename \notin FilenamesOf(extractions)

\* C8: an update by an unknown filename, a send-to-review of an unknown
\* filename and an update_pending with an unknown id each return the not-found
\* result, end the handler, and leave both tables unchanged.
C8_NotFoundNeverSilent ==
    [][(TargetMissing /\ api' # api) =>
          /\ api'.resp = "not_found"
          /\ api'.pc = "idle"
          /\ UNCHANGED Tables]_vars

C8_Witness ==
    /\ api.op = "update_pending_order" /\ api.resp = "not_found"
    /\ pending_orders # {}

\* C9: count_pending equals the number of entries list_pending returns, and
\* list_pending returns exactly the entries whose status is pending, each once.
C9_CountMatchesList ==
    LET listed == get_pending_orders(pending_orders)
    IN /\ get_pending_count(pending_orders) = Len(listed)
       /\ {listed[i] : i \in 1..Len(listed)} =
             {r \in pending_orders : r.status = "pending"}
       /\ \A i, k \in 1..Len(listed) : i # k => listed[i] # listed[k]

C9_Witness ==
    /\ get_pending_count(pending_orders) = 2
    /\ \E r, q \in pending_orders : r.id # q.id /\ r.filename = q.filename

(***************************************************************************)
(* Properties of the store under concurrent jobs.                          *)
(***************************************************************************)
\* Job j commits its upsert in this step.
Commits(j) == jobs[j].state = "processing" /\ jobs'[j].state = "succeeded"

\* C11: last write wins per filename: the step in which a job commits its
\* upsert makes the stored record of its filename the record that job produced
\* (whatever was stored and whichever job was submitted first) and leaves the
\* records of other filenames alone, and no other step of a job changes the
\* store; so once all jobs have finished the record is that of the job that
\* committed last.
C11_CommitStep ==
    /\ \A j \in Jobs :
          Commits(j) =>
             LET f == jobs[j].filename
             IN /\ RowsFor(extractions', f) = {RowOf(nextExtId, jobs[j].data)}
                /\ \A g \in Filenames \ {f} :
                      RowsFor(extractions', g) = RowsFor(extractions, g)
    /\ (\A j \in Jobs : ~Commits(j)) => extractions' = extractions

C11_LastWriteWins == [][C11_CommitStep]_vars

\* Job 1 was submitted first and committed last: its record is the stored one.
C11_Witness ==
    /\ \A j \in Jobs : jobs[j].state = "succeeded"
    /\ jobs[1].filename = jobs[2].filename
    /\ RowOf(1, jobs[1].data) # RowOf(1, jobs[2].data)
    /\ extractions = {RowOf(2, jobs[1].data)}

\* The filenames list_all returns, in the order it returns them.
ListedNames(table) ==
    LET listed == get_all_records(table)
    IN [i \in 1..Len(listed) |-> listed[i].filename]

\* C12: list_all returns every stored record exactly once, the record whose
\* filename was first created later before the one first created earlier: a
\* step that stores a new filename puts it in front of the list, and a step
\* that writes a filename already stored (re-processing, update) leaves the
\* order of the list as it was.
C12_ListStep ==
    LET old == ListedNames(extractions)
        new == ListedNames(extractions')
        listed == get_all_records(extractions')
    IN /\ {listed[i] : i \in 1..Len(listed)} = extractions'
       /\ Len(listed) = Cardinality(extractions')
       /\ IF FilenamesOf(extractions') = FilenamesOf(extractions)
          THEN new = old
          ELSE \E f \in FilenamesOf(extractions') \ FilenamesOf(extractions) :
                  new = <<f>> \o old

C12_NewestCreatedFirst == [][C12_ListStep]_vars

(***************************************************************************)
(* Properties of the two tables over time.                                 *)
(***************************************************************************)
\* C13: the status of a pending-queue entry never changes: update_pending
\* leaves it as it is, and no step moves an entry whose status is not pending
\* back to pending.
C13_StatusStep ==
    \A r \in pending_orders :
        \A q \in pending_orders' :
            q.id = r.id =>
               /\ q.status = r.status
               /\ (r.status # PENDING => q.status # PENDING)

C13_StatusKept == [][C13_StatusStep]_vars

C13_Witness ==
    /\ api.op = "update_pending_order" /\ api.resp = "ok"
    /\ \E r \in pending_orders :
          r.status = PENDING /\ r.pdf_data["invoice_number"] = "x"

PendingIds(table) == {r.id : r \in table}

\* C14: nothing is deleted: the filenames in the extraction store and the ids
\* in the pending queue of one state are all present in the next.
C14_GrowStep ==
    /\ FilenamesOf(extractions) \subseteq FilenamesOf(extractions')
    /\ PendingIds(pending_orders) \subseteq PendingIds(pending_orders')

C14_NothingDeleted == [][C14_GrowStep]_vars

\* An update has replaced a stored row and a pending entry has been added.
C14_Witness ==
    /\ Cardinality(extractions) = 2
    /\ nextExtId > 3
    /\ pending_orders # {}

(***************************************************************************)
(* Properties of what the store keeps of a record.                         *)
(***************************************************************************)
\* The records whose upsert by a job writes row r.
ExtractedAs(r) ==
    {rec \in {extract_pdf_from_bytes(d, r.filename, t).data :
                 d \in Docs, t \in Times} : RowOf(r.id, rec) = r}

\* send_to_pending commits its entry in this step.
SendCommits ==
    /\ api.op = "send_to_pending" /\ api.pc = "write"
    /\ api'.resp = "ok"

\* C15: sending the stored record of F to review adds exactly one entry, with
\* a fresh id, status pending, filename F and a snapshot equal to the stored
\* record in every field, full_text included (the full text the record was
\* extracted with), and leaves the extraction store unchanged.
C15_SendStep ==
    SendCommits =>
       /\ extractions' = extractions
       /\ \E q \in pending_orders' :
             /\ pending_orders' = pending_orders \cup {q}
             /\ q.id \notin PendingIds(pending_orders)
             /\ q.status = PENDING
             /\ q.filename = api.filename
             /\ \E r \in RowsFor(extractions, api.filename) :
                   /\ \A k \in TableFields : q.pdf_data[k] = r[k]
                   /\ \A rec \in ExtractedAs(r) :
                         q.pdf_data["full_text"] = rec["full_text"]

C15_SnapshotIsFullRecord == [][C15_SendStep]_vars

\* C16: after the upsert of a record succeeds, the row read back for its
\* filename has every field of the record, full_text included, with the value
\* that was written.
C16_ReadBackStep ==
    \A j \in Jobs :
        Commits(j) =>
           \E r \in RowsFor(extractions', jobs[j].filename) :
              \A k \in RecordFields :
                 k \in DOMAIN r /\ r[k] = jobs[j].data[k]

C16_RoundTrip == [][C16_ReadBackStep]_vars

(***************************************************************************)
(* Properties of the processing status.                                    *)
(***************************************************************************)
\* The status the priority rule gives filename f in the current state.
StatusByRule(f) ==
    IF f \in FilenamesOf(extractions) THEN "completed"
    ELSE IF \E r \in pending_orders :
               /\ r.status = PENDING
               /\ (r.filename = f \/ r.pdf_data["filename"] = f)
         THEN "pending"
    ELSE IF OnDisk(f) THEN "processing"
    ELSE "not_found"

\* C17: the status reported for a filename is completed when a record with
\* that filename is stored; otherwise pending when a pending entry refers to
\* the filename; otherwise processing when a matching file is on disk;
\* otherwise not_found.
C17_StatusStep ==
    (api.op = "get_processing_status" /\ api.pc # "idle" /\ api'.pc = "idle") =>
        api'.resp = StatusByRule(api.filename)

C17_StatusPriority == [][C17_StatusStep]_vars

(***************************************************************************)
(* Properties of the extractors.                                           *)
(***************************************************************************)
FieldExtractors == {"process_pdf_content", "extract_pdf_fields"}

\* Job j holds the record its extraction returned.
Extracted(j) == jobs[j].state = "processing" /\ jobs[j].pc = "init_db"

\* Two invocations of a field extractor on the same text and filename: two
\* byte jobs that have extracted the same readable document under the same
\* filename, or two successive direct calls that returned.
SameInputJobs(j, k) ==
    /\ Extracted(j) /\ Extracted(k)
    /\ jobs[j].filename = jobs[k].filename
    /\ PdfText(jobs[j].doc) = PdfText(jobs[k].doc)
    /\ PdfText(jobs[j].doc) # DecodeError

SameInputCalls ==
    /\ api.op \in FieldExtractors /\ api'.op = api.op
    /\ api.resp = "returned" /\ api'.resp = "returned"
    /\ api'.filename = api.filename /\ api'.payload = api.payload

\* C18 as stated: the two invocations return records identical in every
\* field.
C18_Identical ==
    /\ [](\A j, k \in Jobs : SameInputJobs(j, k) => jobs[j].data = jobs[k].data)
    /\ [][SameInputCalls => api'.data = api.data]_vars

\* C18 as amended: the two invocations return records identical in every
\* field other than date_extracted, which is the time of the invocation.
C18_IdenticalButTime ==
    /\ [](\A j, k \in Jobs : SameInputJobs(j, k) =>
            \A f \in RecordFields \ {"date_extracted"} :
                jobs[j].data[f] = jobs[k].data[f])
    /\ [][SameInputCalls =>
            \A f \in RecordFields \ {"date_extracted"} :
                api'.data[f] = api.data[f]]_vars

\* Two jobs have extracted the same input at two different times, while the
\* extractor has also been called directly.
C18_Witness ==
    /\ SameInputJobs(1, 2)
    /\ jobs[1].data["date_extracted"] # jobs[2].data["date_extracted"]
    /\ jobs[1].data["invoice_number"] = "AB-123"
    /\ api.op \in FieldExtractors /\ apiOps = 2

\* The total token of the text matches the pattern and does not parse.
Malformed(text) ==
    TotalMatch(text) # NoMatch /\ ParseFloat(TotalMatch(text)) = ValueError

\* C19: on a text whose total token matches and does not parse, each of the
\* two field extractors returns without an error a record with a null
\* total_amount and with invoice_number, customer_email, order_date and
\* content_preview taken from the text, and the extraction built on it does
\* not return an error record.
C19_MalformedTotalOnlyNulls ==
    (/\ api.op \in FieldExtractors \cup {"main.extract_pdf_from_bytes"}
     /\ Malformed(api.payload["text"])) =>
        /\ api.resp = "returned"
        /\ api.data["total_amount"] = Null
        /\ api.data["invoice_number"] = InvoiceMatch(api.payload["text"])
        /\ api.data["customer_email"] = EmailMatch(api.payload["text"])
        /\ api.data["order_date"] = DateMatch(api.payload["text"])
        /\ api.data["content_preview"] = Slice200(api.payload["text"])

(***************************************************************************)
(* The two job shapes.                                                     *)
(***************************************************************************)
\* The text the extraction of job j decodes: from the bytes the job carries,
\* or from the file its path names.
JobText(j) ==
    IF jobs[j].kind = "bytes" THEN PdfText(jobs[j].doc)
    ELSE IF disk[jobs[j].filename] = Absent THEN DecodeError
    ELSE PdfText(disk[jobs[j].filename])

SameButTime(d, e) ==
    \A k \in RecordFields \ {"date_extracted"} : d[k] = e[k]

\* The steps of one attempt on readable content, for a job of either shape:
\* the extraction hands over the fields extracted from the decoded text under
\* the job's filename; init_db is followed by insert_pdf_data; a commit is one
\* upsert of the extracted record and ends the job; a store failure leaves the
\* store alone and is retried while the retry count is below max_retries.
C20_SameSteps ==
    \A j \in Jobs :
        /\ (jobs[j].state = "processing" /\ jobs[j].pc = "start"
              /\ JobText(j) # DecodeError /\ jobs'[j] # jobs[j]) =>
              /\ jobs'[j].state = "processing" /\ jobs'[j].pc = "init_db"
              /\ jobs'[j].retries = jobs[j].retries
              /\ SameButTime(jobs'[j].data,
                     process_pdf_content(JobText(j), jobs[j].filename, "t1"))
              /\ UNCHANGED Tables
        /\ (jobs[j].state = "processing" /\ jobs[j].pc = "init_db"
              /\ jobs'[j].pc # "init_db") =>
              /\ jobs'[j].state = "processing"
              /\ jobs'[j].pc = "insert_pdf_data"
              /\ jobs'[j].data = jobs[j].data
              /\ UNCHANGED Tables
        /\ Commits(j) =>
              /\ jobs[j].pc = "insert_pdf_data"
              /\ jobs'[j].commits = 1
              /\ RowsFor(extractions', jobs[j].filename) =
                    {RowOf(nextExtId, jobs[j].data)}
        /\ (jobs[j].pc = "insert_pdf_data" /\ Excepted(j)) =>
              /\ UNCHANGED Tables
              /\ IF jobs[j].retries < max_retries
                 THEN /\ jobs'[j].state = "retrying"
                      /\ jobs'[j].retries = jobs[j].retries + 1
                 ELSE jobs'[j].state = "failed"

\* A path job and a byte job of the same filename that extracted the same
\* text hold the same record, and when both have succeeded (and no other job
\* has written the filename) the store holds that record for the filename.
C20_SameRecord ==
    \A j, k \in Jobs :
        (/\ jobs[j].kind = "path" /\ jobs[k].kind = "bytes"
         /\ jobs[j].filename = jobs[k].filename
         /\ jobs[j].data["full_text"] = jobs[k].data["full_text"]
         /\ jobs[j].data["filename"] # Null /\ jobs[k].data["filename"] # Null) =>
            /\ SameButTime(jobs[j].data, jobs[k].data)
            /\ (/\ jobs[j].state = "succeeded" /\ jobs[k].state = "succeeded"
                /\ \A m \in Jobs \ {j, k} :
                      jobs[m].filename = jobs[j].filename => jobs[m].commits = 0) =>
                  \E r \in extractions :
                     /\ RowsFor(extractions, jobs[j].filename) = {r}
                     /\ \A c \in TableFields \ {"date_extracted"} :
                           r[c] = jobs[j].data[c] /\ r[c] = jobs[k].data[c]

\* C20: a path job and a byte job with the same readable content and the same
\* filename perform the same sequence of steps (extraction of text and
\* fields, then one upsert per attempt), leave the same record (apart from
\* the extraction time) in the store, and retry a store failure alike.
C20_ShapesConverge == []C20_SameRecord /\ [][C20_SameSteps]_vars

\* A path job and a byte job of a.pdf with the same text have both succeeded,
\* each after a store failure and a retry.
C20_Witness ==
    \E j, k \in Jobs :
        /\ jobs[j].kind = "path" /\ jobs[k].kind = "bytes"
        /\ jobs[j].filename = jobs[k].filename
        /\ jobs[j].state = "succeeded" /\ jobs[k].state = "succeeded"
        /\ jobs[j].retries = 1 /\ jobs[k].retries = 1
        /\ jobs[j].data["full_text"] = "text1"
        /\ jobs[k].data["full_text"] = "text1"
        /\ Cardinality(extractions) = 1

(***************************************************************************)
(* Properties of the update of a record by filename.                       *)
(***************************************************************************)
\* update_pdf_data commits its write in this step.
UpdateCommits ==
    /\ api.op = "update_pdf_data" /\ api.pc = "write"
    /\ api'.resp = "ok"

\* C21: an update by filename F, whatever its payload, changes at most the
\* record of F: the set of stored filenames stays as it is and every record
\* of another filename keeps all its field values.
C21_UpdateStep ==
    UpdateCommits =>
       /\ FilenamesOf(extractions') = FilenamesOf(extractions)
       /\ \A r \in extractions :
             r.filename # api.filename =>
                \E q \in extractions' :
                   /\ q.filename = r.filename
                   /\ \A k \in TableFields : q[k] = r[k]

C21_UpdateTouchesOnlyItsRecord == [][C21_UpdateStep]_vars

\* C22: the update by filename loses no upsert of a job: when it writes, every
\* field its payload does not name keeps the value the record of F holds at
\* that moment, also when a job has upserted F since the update read it.
C22_WriteStep ==
    UpdateCommits =>
       \A r \in RowsFor(extractions, api.filename) :
          \E q \in RowsFor(extractions', api.filename) :
             \A k \in TableFields :
                (k \notin DOMAIN api.payload \/ api.payload[k] = Null) =>
                   q[k] = r[k]

C22_NoLostUpdate == [][C22_WriteStep]_vars

\* C23: for every pending entry, the filename of its filename column is the
\* filename inside its snapshot.
C23_FilenameMatchesSnapshot ==
    \A r \in pending_orders : r.filename = r.pdf_data["filename"]

====
